---- MODULE Spec2Model ----
(***************************************************************************)
(* A model of pelican/contents.py: the content entities (Page, Article),   *)
(* their construction, validation, URL expansion, link rewriting with its  *)
(* per-siteurl cache, summary derivation, and the URLWrapper family (Tag). *)
(*                                                                         *)
(* Text is a sequence of tokens.  A token is a one-character string        *)
(* ("<", ">", "=", "|", "/", a quote, a blank, a letter) or a word the     *)
(* code treats as a unit ("href", "src", "filename", a path segment, a     *)
(* target's url).  Python's str methods and the regular expression of      *)
(* _update_content are operators over such sequences.                      *)
(***************************************************************************)
EXTENDS Integers, Sequences, FiniteSets, TLC

VARIABLES
    text,       \* rewriting: the content handed to _update_content
    items,      \* rewriting: the tags and attributes text was written from
    out,        \* rewriting: results of the runs of _update_content
    pc,         \* position of the driver of the specification in use
    page,       \* the entity: its __class__ and instance attributes
    args,       \* the constructor's arguments
    context,    \* the shared context: filenames and localsiteurl
    cache,      \* the memoized results of get_content, per siteurl
    now,        \* datetime.now()
    ret,        \* what the last call returned or raised
    hist,       \* per siteurl: runs of _update_content, first result
    tags        \* the two Tag instances under comparison

vars == <<text, items, out, pc, page, args, context, cache, now, ret, hist, tags>>

----------------------------------------------------------------------------
(* Bounds of the model. *)

MaxItems == 2
MaxAttrs == 2

----------------------------------------------------------------------------
(* Sequences and sets. *)

Min(S) == CHOOSE x \in S : \A y \in S : x <= y
Max(S) == CHOOSE x \in S : \A y \in S : x >= y

RECURSIVE Flatten(_)
Flatten(ss) == IF ss = <<>> THEN <<>> ELSE Head(ss) \o Flatten(Tail(ss))

StartsWith(s, p) == Len(s) >= Len(p) /\ SubSeq(s, 1, Len(p)) = p

NoFields == [k \in {} |-> 0]

----------------------------------------------------------------------------
(* os.path on token sequences.  The entity's file lies under              *)
(* settings['PATH'] and every path is written relative to it, so that     *)
(* relpath(abspath(join(PATH, f)), abspath(PATH)) is normpath(f).         *)

\* str.split('/'): the segments between the "/" tokens
RECURSIVE SplitPath(_)
SplitPath(p) ==
    IF \A i \in DOMAIN p : p[i] # "/" THEN <<p>>
    ELSE LET k == Min({i \in DOMAIN p : p[i] = "/"})
         IN  <<SubSeq(p, 1, k - 1)>> \o SplitPath(SubSeq(p, k + 1, Len(p)))

\* posixpath.normpath's loop over the segments of a relative path
RECURSIVE Collapse(_, _)
Collapse(segs, acc) ==
    IF segs = <<>> THEN acc
    ELSE LET s == Head(segs)
         IN  IF s = <<>> \/ s = <<".">> THEN Collapse(Tail(segs), acc)
             ELSE IF s = <<"..">> /\ acc # <<>> /\ acc[Len(acc)] # <<"..">>
                  THEN Collapse(Tail(segs), SubSeq(acc, 1, Len(acc) - 1))
             ELSE Collapse(Tail(segs), Append(acc, s))

RECURSIVE JoinSegs(_)
JoinSegs(segs) ==
    IF segs = <<>> THEN <<>>
    ELSE IF Len(segs) = 1 THEN segs[1]
    ELSE segs[1] \o <<"/">> \o JoinSegs(Tail(segs))

normpath(p) ==
    LET segs == Collapse(SplitPath(p), <<>>)
    IN  IF segs = <<>> THEN <<".">> ELSE JoinSegs(segs)

\* os.path.join(a, b) for a relative b
join(a, b) ==
    IF b # <<>> /\ b[1] = "/" THEN b
    ELSE IF a = <<>> \/ a[Len(a)] = "/" THEN a \o b
    ELSE a \o <<"/">> \o b

\* os.path.dirname
dirname(p) ==
    IF \A i \in DOMAIN p : p[i] # "/" THEN <<>>
    ELSE SubSeq(p, 1, Max({i \in DOMAIN p : p[i] = "/"}) - 1)

\* Page.relative_dir
relative_dir(self) == dirname(normpath(self["filename"]))

\* Page.get_relative_filename
get_relative_filename(self, filename) ==
    normpath(IF filename = <<>> THEN self["filename"] ELSE filename)

----------------------------------------------------------------------------
(* The regular expression hrefs of _update_content.                        *)

IsSpace(c) == c \in {" ", "\n"}          \* \s
IsDot(c) == c # "\n"                     \* .
IsQuote(c) == c \in {"\"", "'"}          \* ["\']
IsAttr(c) == c \in {"href", "src"}       \* (?:href|src)

NoMatch == [ok |-> FALSE]

\* \s* from position k on: the first position that holds no blank
PastSpaces(s, k) ==
    Min({p \in k..(Len(s) + 1) :
            /\ \A r \in k..(p - 1) : IsSpace(s[r])
            /\ p = Len(s) + 1 \/ ~IsSpace(s[p])})

\* where a lazy .*? starting after position p ends before the token c
DotRunTo(s, p, c) ==
    {e \in (p + 1)..Len(s) : s[e] = c /\ \A r \in (p + 1)..(e - 1) : IsDot(s[r])}

\* (?:href|src)\s*=(?P<quote>["\'])(?P<path>\|(?P<what>.*?)\|(?P<value>.*?))\2
\* tried with the attribute name at position j
MatchTail(s, j) ==
    IF j > Len(s) \/ ~IsAttr(s[j]) THEN NoMatch
    ELSE LET e == PastSpaces(s, j + 1)
             q == e + 1
         IN  IF ~(q + 1 <= Len(s) /\ s[e] = "=" /\ IsQuote(s[q]) /\ s[q + 1] = "|")
             THEN NoMatch
             ELSE LET bars == {p \in DotRunTo(s, q + 1, "|") :
                                    DotRunTo(s, p, s[q]) # {}}
                  IN  IF bars = {} THEN NoMatch
                      ELSE LET p == Min(bars)
                               c == Min(DotRunTo(s, p, s[q]))
                           IN  [ok |-> TRUE, eq |-> e, quote |-> s[q],
                                what |-> SubSeq(s, q + 2, p - 1),
                                value |-> SubSeq(s, p + 1, c - 1),
                                path |-> SubSeq(s, q + 1, c - 1),
                                end |-> c]

\* the whole expression tried at position i: <\s*[^\>]* is greedy, so the
\* attribute name is the last one of the tag from which the rest matches
AttrPositions(s, i) ==
    {j \in (i + 1)..Len(s) :
        /\ \A r \in (i + 1)..(j - 1) : s[r] # ">"
        /\ MatchTail(s, j).ok}

MatchAt(s, i) ==
    IF s[i] # "<" \/ AttrPositions(s, i) = {} THEN NoMatch
    ELSE LET m == MatchTail(s, Max(AttrPositions(s, i)))
         IN  [ok |-> TRUE, markup |-> SubSeq(s, i, m.eq), quote |-> m.quote,
              what |-> m.what, value |-> m.value, path |-> m.path,
              end |-> m.end]

----------------------------------------------------------------------------
(* Page._update_content                                                    *)

\* the path looked up in context['filenames'] for a |filename| value
ResolveValue(self, value) ==
    IF value # <<>> /\ value[1] = "/" THEN Tail(value)
    ELSE get_relative_filename(self, join(relative_dir(self), value))

\* replacer(m): the replacement text and the warnings it logs
replacer(self, filenames, m) ==
    LET value == ResolveValue(self, m.value)
        found == m.what = <<"filename">> /\ value \in DOMAIN filenames
        origin == IF found THEN filenames[value].url ELSE m.path
    IN  [text |-> m.markup \o <<m.quote>> \o origin \o <<m.quote>>,
         log |-> IF m.what = <<"filename">> /\ ~found THEN <<value>> ELSE <<>>]

\* hrefs.sub(replacer, content): the leftmost match from position i on is
\* replaced, the text before it kept, and the scan resumes after the match
RECURSIVE SubFrom(_, _, _, _)
SubFrom(self, filenames, s, i) ==
    LET starts == {k \in i..Len(s) : MatchAt(s, k).ok}
    IN  IF starts = {} THEN [text |-> SubSeq(s, i, Len(s)), log |-> <<>>]
        ELSE LET k == Min(starts)
                 m == MatchAt(s, k)
                 r == replacer(self, filenames, m)
                 rest == SubFrom(self, filenames, s, m.end + 1)
             IN  [text |-> SubSeq(s, i, k - 1) \o r.text \o rest.text,
                  log |-> r.log \o rest.log]

\* the rewriting with the targets' urls made absolute under siteurl
_update_content_absolute(self, ctx, content, siteurl) ==
    SubFrom(self,
            [k \in DOMAIN ctx.filenames |->
                [url |-> <<siteurl>> \o ctx.filenames[k].url]],
            content, 1)

_update_content(self, ctx, content, siteurl) ==
    SubFrom(self, ctx.filenames, content, 1)

----------------------------------------------------------------------------
(* Content as the markup readers produce it: text and tags whose          *)
(* attributes are written name="value", separated by one blank.           *)

Attr(name, quote, val) == [name |-> name, quote |-> quote, val |-> val]

\* the value |kind|path of a placeholder reference
Placeholder(kind, path) == <<"|", kind, "|">> \o path

AttrChoices ==
    { Attr("href", "\"", Placeholder("filename", <<"/", "x">>)),
      Attr("src", "'", Placeholder("filename", <<"y">>)),
      Attr("href", "\"", Placeholder("filename", <<"/", "z">>)),
      Attr("href", "\"", Placeholder("filename", <<"..", "/", "x">>)),
      Attr("src", "\"", Placeholder("tag", <<"x">>)),
      Attr("href", "'", <<"h">>),
      Attr("title", "\"", Placeholder("filename", <<"/", "x">>)) }

SeqsUpTo(S, n) == UNION {[1..k -> S] : k \in 0..n}

TextItem == [tag |-> FALSE, attrs |-> <<>>]

\* a tag holds one to MaxAttrs attributes, no attribute name twice
AttrLists ==
    {as \in SeqsUpTo(AttrChoices, MaxAttrs) :
        /\ as # <<>>
        /\ \A i, j \in DOMAIN as : as[i].name = as[j].name => i = j}

ItemChoices == {TextItem} \cup {[tag |-> TRUE, attrs |-> as] : as \in AttrLists}

RenderAttr(a) == <<" ", a.name, "=", a.quote>> \o a.val \o <<a.quote>>

RenderItem(it) ==
    IF it.tag
    THEN <<"<", "a">> \o Flatten([i \in DOMAIN it.attrs |-> RenderAttr(it.attrs[i])])
                     \o <<">">>
    ELSE <<"w", " ">>

Render(its) == Flatten([i \in DOMAIN its |-> RenderItem(its[i])])

\* the entries context['filenames'] may hold: relative path -> target, of
\* which the rewriting reads the url
Target(url) == [url |-> url]

FilenamesChoices ==
    { NoFields,
      (<<"x">> :> Target(<<"X">>)),
      (<<"x">> :> Target(<<"X">>)) @@ (<<"d", "/", "y">> :> Target(<<"DY">>)),
      (<<"x">> :> Target(<<"X">>)) @@ (<<"y">> :> Target(<<"Y">>)) }

FilenameChoices == {<<"me">>, <<"d", "/", "me">>}

Siteurls == {"", "http://site"}

\* values of the variables a specification does not use
Idle == "idle"

----------------------------------------------------------------------------
(* Link rewriting as a function of the content: every content is          *)
(* rewritten, rewritten once more, and its output rewritten again.        *)

InitRewrite ==
    /\ items \in SeqsUpTo(ItemChoices, MaxItems)
    /\ text = Render(items)
    /\ \E f \in FilenameChoices :
          page = ("__class__" :> "Page") @@ ("filename" :> f)
    /\ \E fs \in FilenamesChoices :
          context = [filenames |-> fs, localsiteurl |-> ""]
    /\ out = <<>>
    /\ pc = "rewrite"
    /\ args = Idle /\ cache = Idle /\ now = 0 /\ ret = Idle /\ hist = Idle
    /\ tags = Idle

\* _update_content(content, siteurl)
Rewrite ==
    /\ pc = "rewrite" /\ out = <<>>
    /\ \E s \in Siteurls : out' = <<_update_content(page, context, text, s)>>
    /\ UNCHANGED <<text, items, pc, page, args, context, cache, now, ret, hist, tags>>

\* _update_content on the same content a second time
Rerun ==
    /\ pc = "rewrite" /\ Len(out) = 1
    /\ \E s \in Siteurls :
          out' = Append(out, _update_content(page, context, text, s))
    /\ UNCHANGED <<text, items, pc, page, args, context, cache, now, ret, hist, tags>>

\* _update_content on its own output
RewriteOutput ==
    /\ pc = "rewrite" /\ Len(out) = 2
    /\ \E s \in Siteurls :
          out' = Append(out, _update_content(page, context, out[1].text, s))
    /\ pc' = "done"
    /\ UNCHANGED <<text, items, page, args, context, cache, now, ret, hist, tags>>

NextRewrite == Rewrite \/ Rerun \/ RewriteOutput

SpecRewrite == InitRewrite /\ [][NextRewrite]_vars

\* what the rewriting has to make of one attribute: a |filename| value of
\* a href or src attribute becomes the target's url when the resolved path
\* is indexed, and stays as written when it is not
IsFilenameRef(a) ==
    a.name \in {"href", "src"} /\ StartsWith(a.val, <<"|", "filename", "|">>)

RefPath(self, a) == ResolveValue(self, SubSeq(a.val, 4, Len(a.val)))

ResolvedAttr(self, filenames, a) ==
    IF IsFilenameRef(a) /\ RefPath(self, a) \in DOMAIN filenames
    THEN [a EXCEPT !.val = filenames[RefPath(self, a)].url]
    ELSE a

ResolvedItem(self, filenames, it) ==
    [it EXCEPT !.attrs = [i \in DOMAIN it.attrs |->
                            ResolvedAttr(self, filenames, it.attrs[i])]]

Resolved(self, filenames, its) ==
    [i \in DOMAIN its |-> ResolvedItem(self, filenames, its[i])]

\* the references of the content that are not indexed, in order
Dangling(self, filenames, its) ==
    Flatten([i \in DOMAIN its |->
        Flatten([j \in DOMAIN its[i].attrs |->
            IF IsFilenameRef(its[i].attrs[j])
               /\ RefPath(self, its[i].attrs[j]) \notin DOMAIN filenames
            THEN <<RefPath(self, its[i].attrs[j])>> ELSE <<>>])])

\* C2: every href/src attribute whose value is |filename|<value> is
\* replaced by the url of the target indexed under the resolved path, and
\* is left as written, with one warning, when the path is not indexed.
C2_EveryReferenceResolved ==
    Len(out) >= 1 =>
        /\ out[1].text = Render(Resolved(page, context.filenames, items))
        /\ out[1].log = Dangling(page, context.filenames, items)

\* C9: rewriting is deterministic (a second run on the same content gives
\* the same string) and idempotent (a run on its own output changes
\* nothing).
C9_DeterministicIdempotent ==
    pc = "done" => out[2].text = out[1].text /\ out[3].text = out[1].text

----------------------------------------------------------------------------
(* Strings the code computes with are sequences of characters.             *)

UpperLetters ==
    <<"A", "B", "C", "D", "E", "F", "G", "H", "I", "J", "K", "L", "M",
      "N", "O", "P", "Q", "R", "S", "T", "U", "V", "W", "X", "Y", "Z">>
LowerLetters ==
    <<"a", "b", "c", "d", "e", "f", "g", "h", "i", "j", "k", "l", "m",
      "n", "o", "p", "q", "r", "s", "t", "u", "v", "w", "x", "y", "z">>

MapChar(c, from, to) ==
    IF \E k \in DOMAIN from : from[k] = c
    THEN to[CHOOSE k \in DOMAIN from : from[k] = c]
    ELSE c

\* str.lower and str.upper
lower(s) == [i \in DOMAIN s |-> MapChar(s[i], UpperLetters, LowerLetters)]
upper(s) == [i \in DOMAIN s |-> MapChar(s[i], LowerLetters, UpperLetters)]

\* the characters of the names the code puts together; any other name is
\* one token
Chars(name) ==
    CASE name = "Page" -> <<"P", "a", "g", "e">>
      [] name = "Article" -> <<"A", "r", "t", "i", "c", "l", "e">>
      [] name = "url" -> <<"u", "r", "l">>
      [] name = "save_as" -> <<"s", "a", "v", "e", "_", "a", "s">>
      [] name = "lang_url" -> <<"l", "a", "n", "g", "_", "u", "r", "l">>
      [] name = "lang_save_as" ->
            <<"l", "a", "n", "g", "_", "s", "a", "v", "e", "_", "a", "s">>
      [] name = "PAGE_URL" -> <<"P", "A", "G", "E", "_", "U", "R", "L">>
      [] name = "PAGE_SAVE_AS" ->
            <<"P", "A", "G", "E", "_", "S", "A", "V", "E", "_", "A", "S">>
      [] name = "PAGE_LANG_URL" ->
            <<"P", "A", "G", "E", "_", "L", "A", "N", "G", "_", "U", "R", "L">>
      [] name = "PAGE_LANG_SAVE_AS" ->
            <<"P", "A", "G", "E", "_", "L", "A", "N", "G", "_",
              "S", "A", "V", "E", "_", "A", "S">>
      [] name = "ARTICLE_URL" ->
            <<"A", "R", "T", "I", "C", "L", "E", "_", "U", "R", "L">>
      [] name = "ARTICLE_SAVE_AS" ->
            <<"A", "R", "T", "I", "C", "L", "E", "_",
              "S", "A", "V", "E", "_", "A", "S">>
      [] name = "ARTICLE_LANG_URL" ->
            <<"A", "R", "T", "I", "C", "L", "E", "_", "L", "A", "N", "G", "_",
              "U", "R", "L">>
      [] name = "ARTICLE_LANG_SAVE_AS" ->
            <<"A", "R", "T", "I", "C", "L", "E", "_", "L", "A", "N", "G", "_",
              "S", "A", "V", "E", "_", "A", "S">>
      [] OTHER -> <<name>>

\* d[key] for a key given by its characters: the value, or KeyError
HasKey(d, cs) == \E k \in DOMAIN d : Chars(k) = cs
Lookup(d, cs) == d[CHOOSE k \in DOMAIN d : Chars(k) = cs]

----------------------------------------------------------------------------
(* Bounds of the construction: dates are 0..MaxDate, Today is now().       *)

MaxDate == 2
Today == 1

----------------------------------------------------------------------------
(* Exceptions: a call ends with raised = NoExc or with the exception.      *)

NoExc == "none"
None == "None"

Has(self, k) == k \in DOMAIN self            \* hasattr(self, k)

\* setattr with a summary setter that keeps the value
SetAttrKeepingSummary(self, k, v) ==
    IF k = "summary" THEN ("_summary" :> v) @@ self ELSE (k :> v) @@ self

\* setattr(self, k, v): summary is a property whose setter does nothing
SetAttr(self, k, v) == IF k = "summary" THEN self ELSE (k :> v) @@ self

RECURSIVE SetAttrs(_, _)
SetAttrs(self, d) ==
    IF DOMAIN d = {} THEN self
    ELSE LET k == CHOOSE x \in DOMAIN d : TRUE
         IN  SetAttrs(SetAttr(self, k, d[k]), [x \in DOMAIN d \ {k} |-> d[x]])

\* dict.update: the second mapping wins
Update(d, m) == m @@ d

----------------------------------------------------------------------------
(* Page.__init__, step by step.  A step runs unless an earlier one raised. *)

default_template(cls) == IF cls = "Article" THEN <<"article">> ELSE <<"page">>

\* lines 32-43: parameters and local_metadata
InitParams(cls, content, metadata, settings, filename, ctx) ==
    [self |-> ("__class__" :> cls) @@ ("settings" :> settings)
              @@ ("_content" :> content) @@ ("translations" :> <<>>),
     raised |-> NoExc]

local_metadata(metadata, settings) ==
    Update(IF "DEFAULT_METADATA" \in DOMAIN settings
           THEN settings["DEFAULT_METADATA"] ELSE NoFields,
           metadata)

\* lines 45-50: metadata as attributes
InitMetadata(st, metadata, settings) ==
    IF st.raised # NoExc THEN st
    ELSE [st EXCEPT !.self =
            ("metadata" :> local_metadata(metadata, settings))
            @@ SetAttrs(st.self, local_metadata(metadata, settings))]

\* Page._get_template
_get_template(self) ==
    IF Has(self, "template") /\ self["template"] # <<None>>
    THEN self["template"] ELSE default_template(self["__class__"])

\* lines 52-58: template and author
InitTemplateAuthor(st, settings) ==
    IF st.raised # NoExc THEN st
    ELSE LET s1 == ("template" :> _get_template(st.self)) @@ st.self
         IN  [st EXCEPT !.self =
                IF ~Has(s1, "author") /\ "AUTHOR" \in DOMAIN settings
                THEN ("author" :> [name |-> settings["AUTHOR"]]) @@ s1
                ELSE s1]

\* the language step with the entity's lang lower-cased for the comparison
InitLangLowered(st, settings) ==
    IF st.raised # NoExc THEN st
    ELSE IF "DEFAULT_LANG" \in DOMAIN settings
    THEN LET default_lang == lower(settings["DEFAULT_LANG"])
             s1 == IF ~Has(st.self, "lang")
                   THEN ("lang" :> default_lang) @@ st.self ELSE st.self
         IN  [st EXCEPT !.self =
                ("in_default_lang" :> (lower(s1["lang"]) = default_lang)) @@ s1]
    ELSE [st EXCEPT !.self = ("in_default_lang" :> TRUE) @@ st.self]

\* lines 60-67: languages
InitLang(st, settings) ==
    IF st.raised # NoExc THEN st
    ELSE IF "DEFAULT_LANG" \in DOMAIN settings
    THEN LET default_lang == lower(settings["DEFAULT_LANG"])
             s1 == IF ~Has(st.self, "lang")
                   THEN ("lang" :> default_lang) @@ st.self ELSE st.self
         IN  [st EXCEPT !.self =
                ("in_default_lang" :> (s1["lang"] = default_lang)) @@ s1]
    ELSE [st EXCEPT !.self = ("in_default_lang" :> TRUE) @@ st.self]

\* pelican.utils.slugify: lower-cased, blanks to hyphens, other signs dropped
slugify(title) ==
    LET keep == SelectSeq(lower(title),
                    LAMBDA c : c = " " \/ \E k \in DOMAIN LowerLetters :
                                              LowerLetters[k] = c)
    IN  [i \in DOMAIN keep |-> IF keep[i] = " " THEN "-" ELSE keep[i]]

\* whether line 70 derives the slug from the title
NeedsSlug(self) == ~Has(self, "slug") /\ Has(self, "title")

\* lines 69-74: slug and filename
InitSlugFilename(st, filename) ==
    IF st.raised # NoExc THEN st
    ELSE IF NeedsSlug(st.self) /\ ~Has(st.self, "title")
    THEN [st EXCEPT !.raised = "AttributeError"]
    ELSE LET s1 == IF NeedsSlug(st.self)
                   THEN ("slug" :> slugify(st.self["title"])) @@ st.self
                   ELSE st.self
         IN  [st EXCEPT !.self = IF filename # <<>>
                                 THEN ("filename" :> filename) @@ s1 ELSE s1]

\* strftime: the date written in the format
strftime(date, format) == <<ToString(date)>> \o format

\* lines 76-94: date format and locale date (formats are plain strings)
InitDate(st, settings) ==
    IF st.raised # NoExc THEN st
    ELSE IF ~Has(st.self, "date_format")
            /\ "DATE_FORMATS" \notin DOMAIN settings /\ Has(st.self, "lang")
    THEN [st EXCEPT !.raised = "KeyError"]
    ELSE IF ~Has(st.self, "date_format")
            /\ "DEFAULT_DATE_FORMAT" \notin DOMAIN settings
            /\ ~(Has(st.self, "lang")
                 /\ st.self["lang"] \in DOMAIN settings["DATE_FORMATS"])
    THEN [st EXCEPT !.raised = "KeyError"]
    ELSE LET s1 == IF Has(st.self, "date_format") THEN st.self
                   ELSE IF Has(st.self, "lang")
                           /\ st.self["lang"] \in DOMAIN settings["DATE_FORMATS"]
                   THEN ("date_format" :> settings["DATE_FORMATS"][st.self["lang"]])
                        @@ st.self
                   ELSE ("date_format" :> settings["DEFAULT_DATE_FORMAT"])
                        @@ st.self
         IN  [st EXCEPT !.self =
                IF Has(s1, "date")
                THEN ("locale_date" :> strftime(s1["date"], s1["date_format"])) @@ s1
                ELSE s1]

\* the comparison of line 100 with >= for >
DateNotInPast(self, today) == Has(self, "date") /\ self["date"] >= today

\* whether line 100 finds a date in the future
DateInFuture(self, today) == Has(self, "date") /\ self["date"] > today

\* lines 96-101: status
InitStatus(st, settings, today) ==
    IF st.raised # NoExc \/ Has(st.self, "status") THEN st
    ELSE IF {"DEFAULT_STATUS", "WITH_FUTURE_DATES"} \ DOMAIN settings # {}
    THEN [st EXCEPT !.raised = "KeyError"]
    ELSE [st EXCEPT !.self =
            ("status" :> IF ~settings["WITH_FUTURE_DATES"]
                            /\ DateInFuture(st.self, today)
                         THEN "draft" ELSE settings["DEFAULT_STATUS"])
            @@ st.self]

\* lines 103-105: the summary given in the metadata
InitSummary(st, metadata) ==
    IF st.raised # NoExc THEN st
    ELSE IF "summary" \in DOMAIN metadata
    THEN [st EXCEPT !.self = ("_summary" :> metadata["summary"]) @@ st.self]
    ELSE st

\* Page.__init__ (line 107 notifies the observers and changes nothing)
PageInit(cls, content, metadata, settings, filename, ctx, today) ==
    InitSummary(
      InitStatus(
        InitDate(
          InitSlugFilename(
            InitLang(
              InitTemplateAuthor(
                InitMetadata(
                  InitParams(cls, content, metadata, settings, filename, ctx),
                  metadata, settings),
                settings),
              settings),
            filename),
          settings),
        settings, today),
      metadata)

----------------------------------------------------------------------------
(* Calls on the constructed entity.  A call returns a value or raises.     *)

Return(v) == [value |-> v, raised |-> NoExc, arg |-> None]
Raise(e, a) == [value |-> None, raised |-> e, arg |-> a]

\* Page.mandatory_properties, Article.mandatory_properties
mandatory_properties(cls) ==
    IF cls = "Article" THEN <<"title", "date", "category">> ELSE <<"title">>

\* a loop that goes on after a missing property and reports the last one
CheckFromLast(self, props) ==
    LET missing == {i \in DOMAIN props : ~Has(self, props[i])}
    IN  IF missing = {} THEN Return(None)
        ELSE Raise("NameError", props[Max(missing)])

\* the loop of check_properties over the properties left
RECURSIVE CheckFrom(_, _)
CheckFrom(self, props) ==
    IF props = <<>> THEN Return(None)
    ELSE IF ~Has(self, Head(props)) THEN Raise("NameError", Head(props))
    ELSE CheckFrom(self, Tail(props))

\* Page.check_properties
check_properties(self) == CheckFrom(self, mandatory_properties(self["__class__"]))

\* is_valid_content(content, f)
is_valid_content(content) ==
    LET r == check_properties(content)
    IN  IF r.raised = NoExc THEN Return(TRUE)
        ELSE IF r.raised = "NameError" THEN Return(FALSE)
        ELSE r

\* a format template is a sequence of literal texts and {field}s
Lit(cs) == [field |-> FALSE, v |-> cs]
Field(name) == [field |-> TRUE, v |-> <<name>>]

\* Page.url_format: the parameters, each as format() writes it
url_format(self, today) ==
    [slug |-> IF Has(self, "slug") THEN self["slug"] ELSE <<>>,
     lang |-> IF Has(self, "lang") THEN self["lang"] ELSE <<"e", "n">>,
     date |-> <<ToString(IF Has(self, "date") THEN self["date"] ELSE today)>>,
     author |-> IF Has(self, "author") THEN self["author"].name ELSE <<>>,
     category |-> IF Has(self, "category") THEN self["category"]
                  ELSE self["settings"]["DEFAULT_CATEGORY"]]

\* str.format(**params)
RECURSIVE format(_, _)
format(template, params) ==
    IF template = <<>> THEN Return(<<>>)
    ELSE LET part == Head(template)
             rest == format(Tail(template), params)
         IN  IF part.field /\ part.v[1] \notin DOMAIN params
             THEN Raise("KeyError", part.v[1])
             ELSE IF rest.raised # NoExc THEN rest
             ELSE Return((IF part.field THEN params[part.v[1]] ELSE part.v)
                         \o rest.value)

\* Page._expand_settings(key)
_expand_settings(self, key, today) ==
    LET fq_key == upper(Chars(self["__class__"]) \o <<"_">> \o key)
    IN  IF ~HasKey(self["settings"], fq_key) THEN Raise("KeyError", fq_key)
        ELSE IF ~Has(self, "category")
                /\ "DEFAULT_CATEGORY" \notin DOMAIN self["settings"]
        THEN Raise("KeyError", <<"DEFAULT_CATEGORY">>)
        ELSE format(Lookup(self["settings"], fq_key), url_format(self, today))

\* get_url_setting without the lang_ prefix
get_url_setting_nolang(self, key, today) ==
    _expand_settings(self, Chars(key), today)

\* Page.get_url_setting(key)
get_url_setting(self, key, today) ==
    _expand_settings(self,
                     IF self["in_default_lang"] THEN Chars(key)
                     ELSE <<"l", "a", "n", "g", "_">> \o Chars(key),
                     today)

----------------------------------------------------------------------------
(* Construction and validation: the arguments of the constructor.          *)

Opt(k, vs) == {NoFields} \cup {(k :> v) : v \in vs}

En == <<"e", "n">>
EN == <<"E", "N">>
Foo == <<"f", "o", "o">>

MetadataChoices ==
    {t @@ d @@ c @@ l @@ st @@ sl @@ su :
        t \in Opt("title", {<<"A", " ", "t">>}),
        d \in Opt("date", 0..MaxDate),
        c \in Opt("category", {<<"c", "a", "t">>}),
        l \in Opt("lang", {En, EN}),
        st \in Opt("status", {"hidden"}),
        sl \in Opt("slug", {Foo}),
        su \in Opt("summary", {<<"S">>})}

Html == <<".", "h", "t", "m", "l">>

UrlSettings ==
    ("PAGE_URL" :> <<Lit(<<"p", "/">>), Field("slug"), Lit(Html)>>)
    @@ ("PAGE_SAVE_AS" :> <<Lit(<<"o", "/", "p", "/">>), Field("slug"), Lit(Html)>>)
    @@ ("ARTICLE_URL" :> <<Field("slug"), Lit(Html)>>)
    @@ ("ARTICLE_SAVE_AS" :> <<Lit(<<"o", "/">>), Field("slug"), Lit(Html)>>)

LangUrlSettings ==
    ("PAGE_LANG_URL" :>
        <<Lit(<<"p", "/">>), Field("slug"), Lit(<<"-">>), Field("lang"), Lit(Html)>>)
    @@ ("PAGE_LANG_SAVE_AS" :>
        <<Lit(<<"o", "/", "p", "/">>), Field("slug"), Lit(<<"-">>), Field("lang"),
          Lit(Html)>>)
    @@ ("ARTICLE_LANG_URL" :>
        <<Field("lang"), Lit(<<"/">>), Field("slug"), Lit(Html)>>)
    @@ ("ARTICLE_LANG_SAVE_AS" :>
        <<Lit(<<"o", "/">>), Field("lang"), Lit(<<"/">>), Field("slug"), Lit(Html)>>)

BaseSettings ==
    ("PATH" :> <<>>) @@ ("DATE_FORMATS" :> NoFields)
    @@ ("DEFAULT_DATE_FORMAT" :> <<"%a">>)
    @@ ("DEFAULT_CATEGORY" :> <<"m", "i", "s", "c">>)
    @@ ("SUMMARY_MAX_LENGTH" :> 0)
    @@ UrlSettings

SettingsChoices ==
    {dl @@ ds @@ wf @@ dm @@ lu @@ BaseSettings :
        dl \in Opt("DEFAULT_LANG", {En, EN}),
        ds \in {("DEFAULT_STATUS" :> v) : v \in {"published", "draft"}},
        wf \in {("WITH_FUTURE_DATES" :> v) : v \in BOOLEAN},
        dm \in Opt("DEFAULT_METADATA", {("status" :> "draft")}),
        lu \in {NoFields, LangUrlSettings}}

InitContent ==
    /\ \E cls \in {"Page", "Article"}, m \in MetadataChoices, s \in SettingsChoices :
          args = [cls |-> cls, content |-> <<"w">>, metadata |-> m,
                  settings |-> s, filename |-> <<"me">>]
    /\ now = Today
    /\ pc = "new"
    /\ page = Idle
    /\ ret = Idle
    /\ context = [filenames |-> NoFields, localsiteurl |-> ""]
    /\ text = Idle /\ items = Idle /\ out = Idle /\ cache = Idle /\ hist = Idle
    /\ tags = Idle

Called(op, r) == [op |-> op, value |-> r.value, raised |-> r.raised, arg |-> r.arg]

\* Page(content, metadata, settings, filename, context)
Construct ==
    /\ pc = "new"
    /\ LET st == PageInit(args.cls, args.content, args.metadata, args.settings,
                          args.filename, context, now)
       IN  /\ page' = st.self
           /\ ret' = Called("__init__", Raise(st.raised, None))
           /\ pc' = IF st.raised = NoExc THEN "ready" ELSE "failed"
    /\ UNCHANGED <<text, items, out, args, context, cache, now, hist, tags>>

\* page.check_properties()
CheckProperties ==
    /\ pc = "ready"
    /\ ret' = Called("check_properties", check_properties(page))
    /\ UNCHANGED <<text, items, out, pc, page, args, context, cache, now, hist, tags>>

\* is_valid_content(page, f)
IsValidContent ==
    /\ pc = "ready"
    /\ ret' = Called("is_valid_content", is_valid_content(page))
    /\ UNCHANGED <<text, items, out, pc, page, args, context, cache, now, hist, tags>>

\* page.url
GetUrl ==
    /\ pc = "ready"
    /\ ret' = Called("url", get_url_setting(page, "url", now))
    /\ UNCHANGED <<text, items, out, pc, page, args, context, cache, now, hist, tags>>

\* page.save_as
GetSaveAs ==
    /\ pc = "ready"
    /\ ret' = Called("save_as", get_url_setting(page, "save_as", now))
    /\ UNCHANGED <<text, items, out, pc, page, args, context, cache, now, hist, tags>>

NextContent == Construct \/ CheckProperties \/ IsValidContent \/ GetUrl \/ GetSaveAs

SpecContent == InitContent /\ [][NextContent]_vars

----------------------------------------------------------------------------
(* Claims about construction, validation and URLs (SpecContent).           *)

Constructed == pc = "ready"
LastCall(op) == pc # "new" /\ ret.op = op

\* the metadata the entity is built from: DEFAULT_METADATA, overridden by
\* the metadata argument
Given(k) ==
    \/ k \in DOMAIN args.metadata
    \/ /\ "DEFAULT_METADATA" \in DOMAIN args.settings
       /\ k \in DOMAIN args.settings["DEFAULT_METADATA"]

GivenValue(k) ==
    IF k \in DOMAIN args.metadata THEN args.metadata[k]
    ELSE args.settings["DEFAULT_METADATA"][k]

MandatoryFields == IF args.cls = "Article" THEN <<"title", "date", "category">>
                   ELSE <<"title">>

AbsentFields == {i \in DOMAIN MandatoryFields : ~Given(MandatoryFields[i])}

\* C3: construction never fails for a missing mandatory field;
\* check_properties fails iff a mandatory field of the subtype is absent,
\* naming the first absent one in declaration order; is_valid_content
\* returns False for that failure and True otherwise, raising nothing.
C3_TwoPhaseValidation ==
    /\ pc # "new" => pc = "ready" /\ (ret.op = "__init__" => ret.raised = NoExc)
    /\ LastCall("check_properties") =>
          IF AbsentFields = {} THEN ret.raised = NoExc
          ELSE /\ ret.raised = "NameError"
               /\ ret.arg = MandatoryFields[Min(AbsentFields)]
    /\ LastCall("is_valid_content") =>
          ret.raised = NoExc /\ ret.value = (AbsentFields = {})

C3_Witness ==
    /\ LastCall("check_properties")
    /\ args.cls = "Article" /\ Given("title") /\ ~Given("date") /\ ~Given("category")
    /\ ret.raised = "NameError" /\ ret.arg = "date"

ConfiguredLang == "DEFAULT_LANG" \in DOMAIN args.settings

\* C4 as amended: in_default_lang is true iff the entity's lang, as given
\* (the lower-cased DEFAULT_LANG when none is given), equals DEFAULT_LANG
\* lower-cased; without a DEFAULT_LANG it is true for every lang.
C4_InDefaultLang ==
    Constructed =>
        page["in_default_lang"] =
            IF ~ConfiguredLang THEN TRUE
            ELSE IF Given("lang")
                 THEN GivenValue("lang") = lower(args.settings["DEFAULT_LANG"])
                 ELSE TRUE

C4_Witness ==
    /\ Constructed /\ ConfiguredLang /\ Given("lang")
    /\ GivenValue("lang") = EN /\ args.settings["DEFAULT_LANG"] = En
    /\ ~page["in_default_lang"]

\* C4 as claimed: in_default_lang is true iff the entity's lang,
\* lower-cased, equals the configured DEFAULT_LANG; without a DEFAULT_LANG
\* it is true for every lang.
C4_AsClaimed ==
    Constructed =>
        page["in_default_lang"] =
            IF ~ConfiguredLang THEN TRUE
            ELSE lower(page["lang"]) = args.settings["DEFAULT_LANG"]

FutureDraft ==
    /\ Given("date") /\ GivenValue("date") > now
    /\ ~args.settings["WITH_FUTURE_DATES"]

\* C5 as amended: status is the status given in the metadata or, failing
\* that, in DEFAULT_METADATA; otherwise 'draft' when date is set, in the
\* future and WITH_FUTURE_DATES is false, whatever DEFAULT_STATUS is;
\* otherwise DEFAULT_STATUS.
C5_Status ==
    Constructed =>
        page["status"] =
            IF Given("status") THEN GivenValue("status")
            ELSE IF FutureDraft THEN "draft"
            ELSE args.settings["DEFAULT_STATUS"]

C5_Witness ==
    /\ Constructed /\ ~Given("status") /\ FutureDraft
    /\ args.settings["DEFAULT_STATUS"] = "published"
    /\ page["status"] = "draft"

\* C5 as claimed: status is the explicit status of the metadata when there
\* is one; otherwise 'draft' for a future date without WITH_FUTURE_DATES;
\* otherwise DEFAULT_STATUS.
C5_AsClaimed ==
    Constructed =>
        page["status"] =
            IF "status" \in DOMAIN args.metadata THEN args.metadata["status"]
            ELSE IF FutureDraft THEN "draft"
            ELSE args.settings["DEFAULT_STATUS"]

\* the settings key the claim names for a type, a key and a language
SettingFor(cls, key, indefault) ==
    CASE cls = "Page" /\ key = "url" /\ indefault -> "PAGE_URL"
      [] cls = "Page" /\ key = "url" /\ ~indefault -> "PAGE_LANG_URL"
      [] cls = "Page" /\ key = "save_as" /\ indefault -> "PAGE_SAVE_AS"
      [] cls = "Page" /\ key = "save_as" /\ ~indefault -> "PAGE_LANG_SAVE_AS"
      [] cls = "Article" /\ key = "url" /\ indefault -> "ARTICLE_URL"
      [] cls = "Article" /\ key = "url" /\ ~indefault -> "ARTICLE_LANG_URL"
      [] cls = "Article" /\ key = "save_as" /\ indefault -> "ARTICLE_SAVE_AS"
      [] cls = "Article" /\ key = "save_as" /\ ~indefault -> "ARTICLE_LANG_SAVE_AS"

UrlAsClaimed(key) ==
    LET k == SettingFor(args.cls, key, page["in_default_lang"])
    IN  IF k \notin DOMAIN args.settings THEN ret.raised = "KeyError"
        ELSE /\ ret.raised = NoExc
             /\ ret.value = format(args.settings[k], url_format(page, now)).value

\* C6: url and save_as format the setting T_KEY in the default language
\* and T_LANG_KEY otherwise, with slug, lang, date, author and category
\* (DEFAULT_CATEGORY when the entity has none); "{slug}.html" with slug
\* foo gives "foo.html", "{lang}/{slug}.html" gives "<lang>/foo.html"; a
\* missing key is raised.
C6_UrlSettings ==
    /\ LastCall("url") => UrlAsClaimed("url")
    /\ LastCall("save_as") => UrlAsClaimed("save_as")
    /\ LastCall("url") /\ args.cls = "Article" /\ Given("slug")
       /\ page["in_default_lang"] => ret.value = Foo \o Html
    /\ LastCall("url") /\ args.cls = "Article" /\ Given("slug")
       /\ ~page["in_default_lang"] /\ "ARTICLE_LANG_URL" \in DOMAIN args.settings
          => ret.value = page["lang"] \o <<"/">> \o Foo \o Html

C6_Witness ==
    /\ LastCall("url") /\ args.cls = "Article" /\ ~page["in_default_lang"]
    /\ ret.raised = NoExc /\ ret.value = EN \o <<"/">> \o Foo \o Html

----------------------------------------------------------------------------
(* URLWrapper and Tag.                                                     *)

MaxPad == 1

\* ord(c) of a blank or a letter
Ord(c) ==
    IF c = " " THEN 32
    ELSE IF \E k \in DOMAIN UpperLetters : UpperLetters[k] = c
    THEN 64 + (CHOOSE k \in DOMAIN UpperLetters : UpperLetters[k] = c)
    ELSE IF \E k \in DOMAIN LowerLetters : LowerLetters[k] = c
    THEN 96 + (CHOOSE k \in DOMAIN LowerLetters : LowerLetters[k] = c)
    ELSE 0

\* hash(name): a function of the characters, character by character
RECURSIVE hash(_)
hash(s) ==
    IF s = <<>> THEN 0
    ELSE (31 * hash(SubSeq(s, 1, Len(s) - 1)) + Ord(s[Len(s)])) % 65536

\* unicode.strip(name)
strip(s) ==
    LET solid == {i \in DOMAIN s : ~IsSpace(s[i])}
    IN  IF solid = {} THEN <<>> ELSE SubSeq(s, Min(solid), Max(solid))

\* URLWrapper.__init__(name, settings)
URLWrapperInit(name, settings) ==
    [name |-> name, slug |-> slugify(name), settings |-> settings]

\* a Tag built without stripping its name
TagInitUnstripped(name, settings) == URLWrapperInit(name, settings)

\* Tag.__init__(name, settings)
TagInit(name, settings) == URLWrapperInit(strip(name), settings)

\* URLWrapper.__unicode__, __eq__, __hash__
URLWrapper_unicode(self) == self.name
URLWrapper_eq(self, other) == self.name = URLWrapper_unicode(other)
URLWrapper_hash(self) == hash(self.name)

Pad(n) == [i \in 1..n |-> " "]

\* names without blanks at either end
TagCores == {<<"F", "o", "o">>, <<"f", "o", "o">>, <<"f", "o">>, <<"f", " ", "o">>}

InitTag ==
    /\ tags = <<>>
    /\ args = Idle
    /\ pc = "new"
    /\ ret = Idle
    /\ text = Idle /\ items = Idle /\ out = Idle /\ page = Idle /\ cache = Idle
    /\ hist = Idle /\ now = 0
    /\ context = [filenames |-> NoFields, localsiteurl |-> ""]

\* Tag(a, settings), Tag(b, settings)
ConstructTags ==
    /\ pc = "new"
    /\ \E ca, cb \in TagCores, la, ra, lb, rb \in 0..MaxPad :
          /\ args' = [cores |-> <<ca, cb>>,
                      names |-> <<Pad(la) \o ca \o Pad(ra), Pad(lb) \o cb \o Pad(rb)>>]
          /\ tags' = <<TagInit(args'.names[1], NoFields),
                       TagInit(args'.names[2], NoFields)>>
    /\ pc' = "built"
    /\ UNCHANGED <<text, items, out, page, context, cache, now, ret, hist>>

\* tags[1] == tags[2], hash(tags[1]), hash(tags[2])
CompareTags ==
    /\ pc = "built"
    /\ ret' = [op |-> "compare", eq |-> URLWrapper_eq(tags[1], tags[2]),
               hashes |-> <<URLWrapper_hash(tags[1]), URLWrapper_hash(tags[2])>>]
    /\ pc' = "compared"
    /\ UNCHANGED <<text, items, out, page, args, context, cache, now, hist, tags>>

NextTag == ConstructTags \/ CompareTags

SpecTag == InitTag /\ [][NextTag]_vars

\* C7 as amended: two Tags whose names are equal once the blanks at both
\* ends are stripped ("foo" and "foo ") compare equal and have equal
\* hashes, and two Tags whose stripped names differ, if only in case ("Foo"
\* and "foo "), do not compare equal: the stripped name alone decides.
C7_TagEquality ==
    pc = "compared" =>
        /\ ret.eq = (args.cores[1] = args.cores[2])
        /\ args.cores[1] = args.cores[2] => ret.hashes[1] = ret.hashes[2]

C7_Witness ==
    /\ pc = "compared"
    /\ args.names = <<<<"f", "o", "o">>, <<"f", "o", "o", " ">>>>
    /\ ret.eq /\ ret.hashes[1] = ret.hashes[2]

\* C7 as claimed: Tags named "Foo" and "foo " compare equal and have equal
\* hashes.
C7_AsClaimed ==
    pc = "compared" /\ args.names = <<<<"F", "o", "o">>, <<"f", "o", "o", " ">>>>
        => ret.eq /\ ret.hashes[1] = ret.hashes[2]

----------------------------------------------------------------------------
(* get_content, content and summary on a constructed entity.               *)

MaxRuns == 2
MaxWords == 2

\* pelican.utils.memoized: the results kept per argument
MemoHit(memo, key) == key \in DOMAIN memo
MemoStore(memo, key, value) == (key :> value) @@ memo

\* get_content without its decorator: every call rewrites
get_content_undecorated(self, ctx, memo, siteurl) ==
    [value |-> _update_content(self, ctx, self["_content"], siteurl).text,
     memo |-> memo, ran |-> TRUE]

\* Page.get_content(siteurl), memoized: the value, the cache after the
\* call, and whether _update_content ran
get_content(self, ctx, memo, siteurl) ==
    IF MemoHit(memo, siteurl)
    THEN [value |-> memo[siteurl], memo |-> memo, ran |-> FALSE]
    ELSE CHOOSE r \in {[value |-> v, memo |-> MemoStore(memo, siteurl, v),
                         ran |-> TRUE] :
                        v \in {_update_content(self, ctx,
                                    IF Has(self, "_get_content")
                                    THEN self["_get_content"] ELSE self["_content"],
                                    siteurl).text}} : TRUE

\* Page.content
content(self, ctx, memo) == get_content(self, ctx, memo, ctx.localsiteurl)

\* the positions of s outside tags that hold a word
WordPositions(s) ==
    {i \in DOMAIN s :
        /\ ~IsSpace(s[i]) /\ s[i] \notin {"<", ">"}
        /\ \A j \in 1..i : s[j] = "<" => \E k \in j..i : s[k] = ">"}

\* pelican.utils.truncate_html_words: the text up to its n-th word, tags
\* kept whole, marked when words were dropped
truncate_html_words(s, n) ==
    IF Cardinality(WordPositions(s)) <= n THEN s
    ELSE LET last == CHOOSE i \in WordPositions(s) :
                        Cardinality({j \in WordPositions(s) : j <= i}) = n
         IN  SubSeq(s, 1, last) \o <<" ", "...">>

\* Page._get_summary: the value and the cache after the call
_get_summary(self, ctx, memo) ==
    IF Has(self, "_summary")
    THEN [value |-> self["_summary"], memo |-> memo, ran |-> FALSE]
    ELSE IF self["settings"]["SUMMARY_MAX_LENGTH"] # 0
    THEN [content(self, ctx, memo) EXCEPT !.value =
            truncate_html_words(@, self["settings"]["SUMMARY_MAX_LENGTH"])]
    ELSE content(self, ctx, memo)

Tag1(as) == RenderItem([tag |-> TRUE, attrs |-> as])

ContentChoices ==
    { <<"w", " ", "w", " ">> \o
        Tag1(<<Attr("href", "\"", Placeholder("filename", <<"/", "x">>))>>)
        \o <<"w", " ", "w">>,
      Tag1(<<Attr("src", "'", Placeholder("filename", <<"y">>))>>) \o <<"w">> }

SummaryLengths == 0..MaxWords

InitCache ==
    /\ \E c \in ContentChoices, su \in Opt("summary", {<<"S">>}),
          n \in SummaryLengths :
          args = [cls |-> "Article", content |-> c,
                  metadata |-> su @@ ("title" :> <<"A", " ", "t">>),
                  settings |-> ("SUMMARY_MAX_LENGTH" :> n)
                               @@ ("DEFAULT_STATUS" :> "published")
                               @@ ("WITH_FUTURE_DATES" :> TRUE)
                               @@ BaseSettings,
                  filename |-> <<"me">>]
    /\ now = Today
    /\ \E fs \in FilenamesChoices, s \in Siteurls :
          context = [filenames |-> fs, localsiteurl |-> s]
    /\ page = PageInit(args.cls, args.content, args.metadata, args.settings,
                       args.filename, context, now).self
    /\ cache = NoFields
    /\ hist = [runs |-> [s \in Siteurls |-> 0], first |-> NoFields,
               index |-> NoFields, assigned |-> FALSE]
    /\ ret = [op |-> "__init__", arg |-> None, value |-> <<>>, raised |-> NoExc]
    /\ pc = "ready"
    /\ text = Idle /\ items = Idle /\ out = Idle /\ tags = Idle

\* the record of a call that went through get_content(s)
Recorded(s, r) ==
    [runs |-> IF r.ran THEN [hist.runs EXCEPT ![s] = @ + 1] ELSE hist.runs,
     first |-> IF s \in DOMAIN hist.first THEN hist.first
               ELSE (s :> r.value) @@ hist.first,
     index |-> IF r.ran /\ s \notin DOMAIN hist.index
               THEN (s :> context.filenames) @@ hist.index ELSE hist.index,
     assigned |-> hist.assigned]

\* page.get_content(s)
GetContent ==
    /\ pc = "ready"
    /\ \E s \in Siteurls : \E r \in {get_content(page, context, cache, s)} :
          /\ r.ran => hist.runs[s] < MaxRuns
          /\ cache' = r.memo
          /\ hist' = Recorded(s, r)
          /\ ret' = [op |-> "get_content", arg |-> s, value |-> r.value,
                     raised |-> NoExc]
    /\ UNCHANGED <<text, items, out, pc, page, args, context, now, tags>>

\* page.summary
GetSummary ==
    /\ pc = "ready"
    /\ \E r \in {_get_summary(page, context, cache)} :
          /\ r.ran => hist.runs[context.localsiteurl] < MaxRuns
          /\ cache' = r.memo
          /\ hist' = IF Has(page, "_summary") THEN hist
                     ELSE [Recorded(context.localsiteurl, r) EXCEPT
                             !.first = IF context.localsiteurl \in DOMAIN hist.first
                                       THEN hist.first
                                       ELSE (context.localsiteurl
                                               :> r.memo[context.localsiteurl])
                                            @@ hist.first]
          /\ ret' = [op |-> "summary", arg |-> None, value |-> r.value,
                     raised |-> NoExc]
    /\ UNCHANGED <<text, items, out, pc, page, args, context, now, tags>>

\* page.summary = v
SetSummary ==
    /\ pc = "ready"
    /\ \E v \in {<<"Z">>} :
          /\ page' = SetAttr(page, "summary", v)
          /\ ret' = [op |-> "set_summary", arg |-> v, value |-> <<>>,
                     raised |-> NoExc]
    /\ hist' = [hist EXCEPT !.assigned = TRUE]
    /\ UNCHANGED <<text, items, out, pc, args, context, cache, now, tags>>

\* the orchestrator changes context['filenames']
ChangeFilenames ==
    /\ pc = "ready"
    /\ \E fs \in FilenamesChoices \ {context.filenames} :
          context' = [context EXCEPT !.filenames = fs]
    /\ UNCHANGED <<text, items, out, pc, page, args, cache, now, ret, hist, tags>>

NextCache == GetContent \/ GetSummary \/ SetSummary \/ ChangeFilenames

SpecCache == InitCache /\ [][NextCache]_vars

----------------------------------------------------------------------------
(* Claims about the cache and the summary (SpecCache).                     *)

\* what a rewriting of the entity's content would give now
FreshContent(s) == _update_content(page, context, page["_content"], s).text

\* C1: _update_content runs at most once per siteurl; every call of
\* get_content(s) returns the string its first call returned, also after
\* context.filenames changed; each siteurl has a cache entry of its own.
C1_CachedPerSiteurl ==
    /\ \A s \in Siteurls : hist.runs[s] <= 1
    /\ DOMAIN cache = {s \in Siteurls : hist.runs[s] = 1}
    /\ \A s \in DOMAIN hist.first : s \in DOMAIN cache /\ cache[s] = hist.first[s]
    /\ ret.op = "get_content" => ret.value = hist.first[ret.arg]

C1_Witness ==
    /\ ret.op = "get_content"
    /\ \A s \in Siteurls : hist.runs[s] = 1
    /\ hist.index[ret.arg] # context.filenames
    /\ ret.value # FreshContent(ret.arg)
    /\ ret.value = hist.first[ret.arg]

SummaryGiven == "summary" \in DOMAIN args.metadata
SummaryLength == args.settings["SUMMARY_MAX_LENGTH"]

\* C8: a summary given in the metadata is what summary returns, verbatim,
\* after any assignments to summary and calls of get_content, also with
\* SUMMARY_MAX_LENGTH set; an assignment raises nothing and changes
\* nothing summary reads.  Without one, summary is the rewritten content
\* for localsiteurl, cut to SUMMARY_MAX_LENGTH words when that is positive.
C8_Summary ==
    /\ Has(page, "_summary") = SummaryGiven
    /\ SummaryGiven => page["_summary"] = args.metadata["summary"]
    /\ ret.op = "set_summary" => ret.raised = NoExc
    /\ ret.op = "summary" =>
          /\ ret.raised = NoExc
          /\ ret.value =
                IF SummaryGiven THEN args.metadata["summary"]
                ELSE IF SummaryLength > 0
                THEN truncate_html_words(cache[context.localsiteurl], SummaryLength)
                ELSE cache[context.localsiteurl]

C8_Witness ==
    /\ ret.op = "summary" /\ hist.assigned /\ SummaryGiven /\ SummaryLength > 0
    /\ cache # NoFields
    /\ ret.value = <<"S">>

\* C10: the string get_content returns does not depend on siteurl: two
\* siteurls rewritten against the same context.filenames hold the same
\* string.
C10_SiteurlIndependent ==
    \A s1, s2 \in DOMAIN cache :
        hist.index[s1] = hist.index[s2] => cache[s1] = cache[s2]

C10_Witness ==
    /\ DOMAIN cache = Siteurls
    /\ \A s1, s2 \in Siteurls : hist.index[s1] = hist.index[s2]
    /\ \A s \in Siteurls : cache[s] # page["_content"]

====
